---- MODULE Spec2Model ----
(***************************************************************************)
(* Model of pi-home-server: the Twilio SMS webhook (main.py), the door     *)
(* automation (door.py), the cookie session store (auth.py), the           *)
(* configuration (config.py) and the dry-run script                        *)
(* (test_button_finding.py).                                               *)
(*                                                                         *)
(* Text (SMS bodies, URLs) is a sequence of one-character strings, so that *)
(* str.strip, str.lower and the `in` substring test are computed.          *)
(***************************************************************************)
EXTENDS Integers, Sequences, FiniteSets, TLC

VARIABLES
    clock,            \* datetime.now(), in seconds
    rate_limit_data,  \* main.rate_limit_data: phone -> list of timestamps
    accepted,         \* history: phone -> times at which check_rate_limit returned True
    dispatched,       \* history: phone -> times at which a command was dispatched
    last,             \* the last POST /sms call: its inputs, its trace and its answer
    door_opener,      \* door._door_opener: None (exists = FALSE) or the DoorOpener's fields
    launches,         \* history: DoorOpeners created, browsers and contexts launched
    pages,            \* number of browser pages currently open
    doorRet,          \* the last door.open_door() / door.check_status() call and its trace
    running,          \* whether the server process is up (False after shutdown)
    cookies_file,     \* cookies.json: whether it exists, its mode and its content
    saving,           \* the save_cookies call in progress: where it is, and its cookies
    lastSaved,        \* history: the cookies of the latest save_cookies call, once it
                      \* returned, until clear_cookies or a change from outside
    sessRet,          \* the last SessionManager call that ended, and its outcome
    testRet           \* the last test_find_button run, and its outcome

smsVars == <<clock, rate_limit_data, accepted, dispatched, last>>
doorVars == <<door_opener, launches, pages, doorRet, running>>
fileVars == <<cookies_file, saving, lastSaved, sessRet, testRet>>

----------------------------------------------------------------------------
(* Bounds of the model *)

MaxTicks == 2
MaxAccepted == 11
MaxPages == 2

----------------------------------------------------------------------------
(* config.py *)

rate_limit_max_requests == 10
rate_limit_window_seconds == 3600

\* ALLOWED_PHONE_NUMBERS, parsed by Config._parse_phone_numbers
allowed_phone_numbers == {"+15550001", "+15550002"}

\* every From value a webhook call may carry
Phones == allowed_phone_numbers \cup {"+15559999"}

\* an allowlist test that lets every number in
is_phone_allowed_any(phone_number) == phone_number \in Phones

\* Config.is_phone_allowed
is_phone_allowed(phone_number) == phone_number \in allowed_phone_numbers

----------------------------------------------------------------------------
(* Text *)

UpperAlphabet == <<"A","B","C","D","E","F","G","H","I","J","K","L","M",
                   "N","O","P","Q","R","S","T","U","V","W","X","Y","Z">>
LowerAlphabet == <<"a","b","c","d","e","f","g","h","i","j","k","l","m",
                   "n","o","p","q","r","s","t","u","v","w","x","y","z">>
Whitespace == {" ", "\t", "\n", "\r"}

LowerChar(c) ==
    IF \E i \in 1..Len(UpperAlphabet) : UpperAlphabet[i] = c
    THEN LowerAlphabet[CHOOSE i \in 1..Len(UpperAlphabet) : UpperAlphabet[i] = c]
    ELSE c

\* str.lower()
Lower(s) == [i \in 1..Len(s) |-> LowerChar(s[i])]

\* str.strip(): drop the leading and the trailing whitespace
Strip(s) ==
    LET keep == {i \in 1..Len(s) : s[i] \notin Whitespace}
    IN  IF keep = {} THEN <<>>
        ELSE LET lo == CHOOSE i \in keep : \A j \in keep : i <= j
                 hi == CHOOSE i \in keep : \A j \in keep : j <= i
             IN  SubSeq(s, lo, hi)

\* sub in s
Contains(s, sub) ==
    \E i \in 0..(Len(s) - Len(sub)) : SubSeq(s, i + 1, i + Len(sub)) = sub

----------------------------------------------------------------------------
(* main.py: the rate limiter *)

\* an SMS body, as Twilio posts it in the Body form field
Bodies ==
    { <<"d","o","o","r">>,
      <<" ","D","o","O","r","\n">>,
      <<"s","t","a","t","u","s">>,
      <<"\t","S","T","A","T","U","S"," ">>,
      <<"d","o","o","r","s">>,
      <<"d","o"," ","o","r">>,
      <<"o","p","e","n">> }

\* the X-Twilio-Signature header: absent (read as ""), a value that is not the
\* signature of the request, or the signature Twilio computes with the auth token
NoSignature == ""
ForgedSignature == "forged"
TwilioSignature == "hmac-sha1(auth_token, url + params)"
Signatures == {NoSignature, ForgedSignature, TwilioSignature}

\* a filter that keeps the timestamp lying exactly on the cutoff
InWindowInclusive(ts, cutoff) == ts >= cutoff

\* main.py:45, the filter of the list comprehension
InWindow(ts, cutoff) == ts > cutoff

\* a limit test that is off by one
LimitExceededLate(history) == Len(history) > rate_limit_max_requests

\* main.py:49
LimitExceeded(history) == Len(history) >= rate_limit_max_requests

\* main.py:44-46
Prune(history, cutoff) == SelectSeq(history, LAMBDA ts : InWindow(ts, cutoff))

\* check_rate_limit(phone_number) called at time now on the dictionary data:
\* the value returned and the dictionary it leaves
check_rate_limit(data, phone_number, now) ==
    LET cutoff == now - rate_limit_window_seconds
        d1     == IF phone_number \in DOMAIN data
                  THEN data
                  ELSE data @@ (phone_number :> <<>>)
        pruned == Prune(d1[phone_number], cutoff)
        d2     == [d1 EXCEPT ![phone_number] = pruned]
    IN  IF LimitExceeded(pruned)
        THEN [ok |-> FALSE, data |-> d2]
        ELSE [ok |-> TRUE,
              data |-> [d2 EXCEPT ![phone_number] = Append(pruned, now)]]

----------------------------------------------------------------------------
(* auth.py: the cookie file and its JSON content *)

\* a cookie list, as BrowserContext.cookies() returns it
CookieLists ==
    { <<>>,
      <<[name |-> "sid", value |-> "s1"]>>,
      <<[name |-> "sid", value |-> "s2"]>>,
      <<[name |-> "sid", value |-> "s1"], [name |-> "csrf", value |-> "t1"]>> }

NoFile == [exists |-> FALSE, mode |-> 0, content |-> <<>>]

\* json.dump(cookies, f): the text written, as a sequence of tokens
RECURSIVE JsonItems(_)
JsonItems(cookies) ==
    IF cookies = <<>> THEN <<>>
    ELSE LET c    == Head(cookies)
             item == <<"{", c.name, ":", c.value, "}">>
         IN  IF Len(cookies) = 1 THEN item
             ELSE item \o <<",">> \o JsonItems(Tail(cookies))

JsonDump(cookies) == <<"[">> \o JsonItems(cookies) \o <<"]">>

\* json.load(f): kind "cookies" for a list of cookie objects, "json" for any other
\* JSON value, "invalid" when json.load raises
JsonLoad(text) ==
    LET n     == Len(text)
        inner == SubSeq(text, 2, n - 1)
        m     == Len(inner)
        k     == (m + 1) \div 6
        wellFormed ==
            /\ (m + 1) % 6 = 0
            /\ \A j \in 0..(k - 1) :
                  /\ inner[6 * j + 1] = "{"
                  /\ inner[6 * j + 3] = ":"
                  /\ inner[6 * j + 5] = "}"
                  /\ (j < k - 1 => inner[6 * j + 6] = ",")
    IN  IF text = <<"{", "}">> THEN [kind |-> "json", value |-> <<>>]
        ELSE IF n < 2 \/ text[1] # "[" \/ text[n] # "]"
        THEN [kind |-> "invalid", value |-> <<>>]
        ELSE IF m = 0 THEN [kind |-> "cookies", value |-> <<>>]
        ELSE IF wellFormed
        THEN [kind |-> "cookies",
              value |-> [j \in 1..k |-> [name  |-> inner[6 * (j - 1) + 2],
                                         value |-> inner[6 * (j - 1) + 4]]]]
        ELSE [kind |-> "invalid", value |-> <<>>]

\* BrowserContext.add_cookies(cookies): a cookie replaces the one of the same name
RECURSIVE AddCookies(_, _)
AddCookies(jar, cookies) ==
    IF cookies = <<>> THEN jar
    ELSE LET c    == Head(cookies)
             rest == SelectSeq(jar, LAMBDA x : x.name # c.name)
         IN  AddCookies(Append(rest, c), Tail(cookies))

\* SessionManager.cookies_exist
cookies_exist(file) == file.exists

\* the owner's read and write permission bits of a file mode
OwnerCanRead(mode) == (mode \div 256) % 2 = 1
OwnerCanWrite(mode) == (mode \div 128) % 2 = 1

\* a load that answers True without handing the cookies to the context
load_cookies_forgetful(file, jar) ==
    [ret |-> cookies_exist(file) /\ OwnerCanRead(file.mode)
             /\ JsonLoad(file.content).kind = "cookies",
     jar |-> jar]

\* SessionManager.load_cookies(context) on the file: the value returned and the
\* cookies the context holds afterwards. open(..., "r") raises on a file the owner
\* may not read, and the except clause answers False
load_cookies(file, jar) ==
    IF ~cookies_exist(file) THEN [ret |-> FALSE, jar |-> jar]
    ELSE IF ~OwnerCanRead(file.mode) THEN [ret |-> FALSE, jar |-> jar]
    ELSE LET parsed == JsonLoad(file.content)
         IN  IF parsed.kind = "cookies"
             THEN [ret |-> TRUE, jar |-> AddCookies(jar, parsed.value)]
             ELSE [ret |-> FALSE, jar |-> jar]

\* the bits of mode that are not in mask: mode & ~mask
RECURSIVE ClearBits(_, _)
ClearBits(mode, mask) ==
    IF mode = 0 THEN 0
    ELSE 2 * ClearBits(mode \div 2, mask \div 2)
         + (IF mode % 2 = 1 /\ mask % 2 = 0 THEN 1 ELSE 0)

\* the mode open(path, "w") gives a file it creates: 0o666 & ~umask
CreatedMode(umask) == ClearBits(438, umask)

\* 0o022, 0o077 and 0o000
Umasks == {18, 63, 0}

NotSaving == [pc |-> "idle", cookies |-> <<>>, prior |-> NoFile]
NothingSaved == [ok |-> FALSE, cookies |-> <<>>]
NoSessRet == [op |-> "none", ret |-> "none", cookies |-> <<>>, before |-> <<>>, jar |-> <<>>,
              file |-> NoFile]

\* auth.py:25, open(self.cookies_file, "w"): the file is created with the mode the
\* umask leaves, or truncated with its mode kept
OpenForWrite(file, umask) ==
    [exists  |-> TRUE,
     mode    |-> IF file.exists THEN file.mode ELSE CreatedMode(umask),
     content |-> <<>>]

\* a save that leaves the mode alone
KeepMode(file) == file

\* auth.py:28, os.chmod(self.cookies_file, 0o600)
Chmod600(file) == [file EXCEPT !.mode = 384]

\* what json.dump leaves in the file when the write fails on the way
Partial(text) == SubSeq(text, 1, Len(text) \div 2)

----------------------------------------------------------------------------
(* The web portal and the browser, as the code observes them *)

\* page.url after page.goto(config.avigilon_url)
Urls ==
    { <<"/","d","o","o","r","s">>,
      <<"/","L","o","g","i","n","?","n","=","1">>,
      <<"/","a","u","t","h","/","S","i","g","n","I","n">>,
      <<"/","s","s","o">> }

\* a login test that forgets .lower()
IsLoginUrlCaseSensitive(current_url) ==
    \/ Contains(current_url, <<"l","o","g","i","n">>)
    \/ Contains(current_url, <<"s","i","g","n","i","n">>)

\* door.py:76, auth.py:69, test_button_finding.py:38
IsLoginUrl(current_url) ==
    \/ Contains(Lower(current_url), <<"l","o","g","i","n">>)
    \/ Contains(Lower(current_url), <<"s","i","g","n","i","n">>)

\* What the browser does during one DoorOpener.open_door call. A field is read only
\* when the call gets that far; runs that differ in unread fields are left out.
\*   newPage : "ok" | "error"               context.new_page()
\*   goto    : "ok" | "timeout" | "error"   page.goto(url, timeout=15000)
\*   url     : the URL the navigation ended on
\*   idle    : "ok" | "timeout"             page.wait_for_load_state("networkidle")
\*   count   : button.count()
\*   click   : "ok" | "timeout" (nothing clicked) | "error" (raised after the click)
\*   wait    : "ok" | "error"               page.wait_for_timeout(2000)
DefaultUrl == <<"/","d","o","o","r","s">>

WebRun(newPage, goto, url, idle, count, click, wait) ==
    [newPage |-> newPage, goto |-> goto, url |-> url, idle |-> idle,
     count |-> count, click |-> click, wait |-> wait]

NominalRun == WebRun("ok", "ok", DefaultUrl, "ok", 1, "ok", "ok")

WebRuns ==
    {WebRun("error", "ok", DefaultUrl, "ok", 1, "ok", "ok")}
    \cup {WebRun("ok", g, DefaultUrl, "ok", 1, "ok", "ok") : g \in {"timeout", "error"}}
    \cup {WebRun("ok", "ok", u, "ok", 1, "ok", "ok") : u \in Urls}
    \cup {WebRun("ok", "ok", u, "timeout", 1, "ok", "ok") : u \in {DefaultUrl, <<"/","s","s","o">>}}
    \cup {WebRun("ok", "ok", u, "ok", 0, "ok", "ok") : u \in {DefaultUrl, <<"/","s","s","o">>}}
    \cup {WebRun("ok", "ok", DefaultUrl, "ok", n, c, "ok") :
              n \in {1, 2}, c \in {"ok", "timeout", "error"}}
    \cup {WebRun("ok", "ok", DefaultUrl, "ok", 1, "ok", "error")}

\* How DoorOpener.start ends: "ok", or the call that raises
StartRuns == {"ok", "playwright_error", "launch_error", "context_error"}

----------------------------------------------------------------------------
(* door.py *)

\* _door_opener = None
NoOpener == [exists |-> FALSE, id |-> 0, browser |-> FALSE, context |-> FALSE, jar |-> <<>>]

\* DoorOpener.__init__; id tells the instances apart
NewOpener(id) == [exists |-> TRUE, id |-> id, browser |-> FALSE, context |-> FALSE, jar |-> <<>>]

NoLaunches == [openers |-> 0, browsers |-> 0, contexts |-> 0]

\* door.py:25
AlreadyStarted(opener) == opener.browser

\* DoorOpener.start on opener: the opener afterwards, whether the call raised, and
\* the browsers and contexts it launched
start(opener, file, run) ==
    IF AlreadyStarted(opener)
    THEN [opener |-> opener, raised |-> FALSE, browsers |-> 0, contexts |-> 0]
    ELSE IF run \in {"playwright_error", "launch_error"}
    THEN [opener |-> opener, raised |-> TRUE, browsers |-> 0, contexts |-> 0]
    ELSE IF run = "context_error"
    THEN [opener |-> [opener EXCEPT !.browser = TRUE],
          raised |-> TRUE, browsers |-> 1, contexts |-> 0]
    ELSE [opener |-> [opener EXCEPT
                        !.browser = TRUE,
                        !.context = TRUE,
                        !.jar = IF cookies_exist(file)
                                THEN load_cookies(file, <<>>).jar
                                ELSE <<>>],
          raised |-> FALSE, browsers |-> 1, contexts |-> 1]

\* DoorOpener.stop
stop(opener) ==
    IF opener.browser THEN [opener EXCEPT !.browser = FALSE, !.context = FALSE]
    ELSE opener

\* a test that never finds the global opener
NeedsOpenerAlways(global) == TRUE

\* door.py:123
NeedsOpener(global) == ~global.exists

\* get_door_opener(): the global afterwards, whether the call raised, and what it
\* created and launched
get_door_opener(global, made, file, run) ==
    IF NeedsOpener(global)
    THEN LET s == start(NewOpener(made + 1), file, run)
         IN  [opener |-> s.opener, raised |-> s.raised, openers |-> 1,
              browsers |-> s.browsers, contexts |-> s.contexts]
    ELSE [opener |-> global, raised |-> FALSE, openers |-> 0,
          browsers |-> 0, contexts |-> 0]

NoUrl == <<>>

\* what one open_door call did: the tuple returned, the pages it created and closed,
\* the clicks on the door button, the URL it read and the count it read
\* (-1: button.count() was not reached)
DoorResult(success, message, created, clicks, url, counted) ==
    [success |-> success, message |-> message, created |-> created,
     closed |-> created, clicks |-> clicks, url |-> url, counted |-> counted]

\* door.py:62
NotInitialized(opener) == ~opener.browser \/ ~opener.context

\* door.py:88
ButtonMissing(count) == count = 0

\* DoorOpener.open_door on opener, the browser behaving as run says. The finally
\* clause closes the page whenever one was created.
DoorOpener_open_door(opener, run) ==
    IF NotInitialized(opener)
    THEN DoorResult(FALSE, "Browser not initialized", 0, 0, NoUrl, -1)
    ELSE IF run.newPage # "ok"
    THEN DoorResult(FALSE, "error", 0, 0, NoUrl, -1)
    ELSE IF run.goto # "ok"
    THEN DoorResult(FALSE, run.goto, 1, 0, NoUrl, -1)
    ELSE IF IsLoginUrl(run.url)
    THEN DoorResult(FALSE, "session_expired", 1, 0, run.url, -1)
    ELSE IF run.idle # "ok"
    THEN DoorResult(FALSE, run.idle, 1, 0, run.url, -1)
    ELSE IF ButtonMissing(run.count)
    THEN DoorResult(FALSE, "button_not_found", 1, 0, run.url, run.count)
    ELSE IF run.click = "timeout"
    THEN DoorResult(FALSE, "timeout", 1, 0, run.url, run.count)
    ELSE IF run.click = "error"
    THEN DoorResult(FALSE, "error", 1, 1, run.url, run.count)
    ELSE IF run.wait # "ok"
    THEN DoorResult(FALSE, run.wait, 1, 1, run.url, run.count)
    ELSE DoorResult(TRUE, "success", 1, 1, run.url, run.count)

\* SessionManager.is_session_valid(context): page.close() is reached only when
\* new_page, goto, url and title all returned; the except clause answers False.
\* run.idle stands for page.title() here.
is_session_valid(run) ==
    IF run.newPage # "ok" THEN [ret |-> FALSE, created |-> 0, closed |-> 0]
    ELSE IF run.goto # "ok" THEN [ret |-> FALSE, created |-> 1, closed |-> 0]
    ELSE IF run.idle # "ok" THEN [ret |-> FALSE, created |-> 1, closed |-> 0]
    ELSE [ret |-> ~IsLoginUrl(run.url), created |-> 1, closed |-> 1]

\* DoorOpener.check_session
check_session(opener, run) ==
    IF ~opener.context THEN [ret |-> FALSE, created |-> 0, closed |-> 0]
    ELSE is_session_valid(run)

\* door.open_door(): get_door_opener() and then opener.open_door(). An exception of
\* DoorOpener.start leaves through get_door_opener and open_door.
open_door(global, made, file, startRun, run) ==
    LET g == get_door_opener(global, made, file, startRun)
    IN  [got    |-> g,
         raised |-> g.raised,
         result |-> IF g.raised
                    THEN DoorResult(FALSE, "raised", 0, 0, NoUrl, -1)
                    ELSE DoorOpener_open_door(g.opener, run)]

\* door.check_status()
check_status(global, made, file, startRun, run) ==
    LET g == get_door_opener(global, made, file, startRun)
        v == IF g.raised THEN [ret |-> FALSE, created |-> 0, closed |-> 0]
             ELSE check_session(g.opener, run)
    IN  [got    |-> g,
         raised |-> g.raised,
         created |-> v.created,
         closed |-> v.closed,
         status |-> [browser_running |-> g.opener.browser,
                     session_valid   |-> v.ret,
                     cookies_exist   |-> cookies_exist(file)]]

Launched(l, g) ==
    [openers  |-> l.openers + g.openers,
     browsers |-> l.browsers + g.browsers,
     contexts |-> l.contexts + g.contexts]

NoDoorRet ==
    [op |-> "none", startRun |-> "ok", run |-> NominalRun, before |-> NoOpener,
     used |-> 0, raised |-> FALSE,
     result |-> DoorResult(FALSE, "none", 0, 0, NoUrl, -1),
     session_valid |-> FALSE, browsers |-> 0]

----------------------------------------------------------------------------
(* The door module driven directly: door.open_door(), door.check_status(),      *)
(* DoorOpener.start() on the global opener, and the shutdown handler of main.py *)

\* a cookies.json the program can have left behind
SavedFile(cookies) == [exists |-> TRUE, mode |-> 384, content |-> JsonDump(cookies)]

OpenDoorCall(startRun, run) ==
    /\ running
    /\ \E r \in {open_door(door_opener, launches.openers, cookies_file, startRun, run)} :
           /\ door_opener' = r.got.opener
           /\ launches' = Launched(launches, r.got)
           /\ pages' = pages + r.result.created - r.result.closed
           /\ doorRet' = [op |-> "open_door", startRun |-> startRun, run |-> run,
                          before |-> door_opener, used |-> r.got.opener.id,
                          raised |-> r.raised, result |-> r.result,
                          session_valid |-> FALSE, browsers |-> r.got.browsers]
    /\ UNCHANGED <<running, fileVars, smsVars>>

CheckStatusCall(startRun, run) ==
    /\ running
    /\ \E r \in {check_status(door_opener, launches.openers, cookies_file, startRun, run)} :
           /\ pages + r.created - r.closed <= MaxPages
           /\ door_opener' = r.got.opener
           /\ launches' = Launched(launches, r.got)
           /\ pages' = pages + r.created - r.closed
           /\ doorRet' = [op |-> "check_status", startRun |-> startRun, run |-> run,
                          before |-> door_opener, used |-> r.got.opener.id,
                          raised |-> r.raised,
                          result |-> [DoorResult(FALSE, "none", r.created, 0, NoUrl, -1)
                                        EXCEPT !.closed = r.closed],
                          session_valid |-> r.status.session_valid,
                          browsers |-> r.got.browsers]
    /\ UNCHANGED <<running, fileVars, smsVars>>

\* DoorOpener.start() called again on the opener get_door_opener made
StartAgain(startRun) ==
    /\ running
    /\ door_opener.exists
    /\ \E r \in {start(door_opener, cookies_file, startRun)} :
           /\ door_opener' = r.opener
           /\ launches' = [launches EXCEPT !.browsers = @ + r.browsers,
                                           !.contexts = @ + r.contexts]
           /\ doorRet' = [op |-> "start", startRun |-> startRun, run |-> NominalRun,
                          before |-> door_opener, used |-> door_opener.id,
                          raised |-> r.raised,
                          result |-> DoorResult(FALSE, "none", 0, 0, NoUrl, -1),
                          session_valid |-> FALSE, browsers |-> r.browsers]
    /\ UNCHANGED <<pages, running, fileVars, smsVars>>

\* main.shutdown_event: the process ends after it
Shutdown ==
    /\ running
    /\ running' = FALSE
    /\ door_opener' = IF door_opener.exists THEN stop(door_opener) ELSE door_opener
    /\ pages' = IF door_opener.exists /\ door_opener.browser THEN 0 ELSE pages
    /\ doorRet' = [NoDoorRet EXCEPT !.op = "stop", !.before = door_opener]
    /\ UNCHANGED <<launches, fileVars, smsVars>>

----------------------------------------------------------------------------
(* auth.py: SessionManager.save_cookies, load_cookies and clear_cookies *)

SessRet(op, ret, cookies, before, jar, file) ==
    [op |-> op, ret |-> ret, cookies |-> cookies, before |-> before, jar |-> jar,
     file |-> file]

\* save_cookies(context), auth.py:24-25: the cookies are read and the file is opened
\* for writing; open raises on an existing file its owner may not write
SaveOpen(cookies, umask) ==
    /\ saving.pc = "idle"
    /\ IF cookies_file.exists /\ ~OwnerCanWrite(cookies_file.mode)
       THEN /\ sessRet' = SessRet("save_cookies", "raised", cookies, <<>>, <<>>, cookies_file)
            /\ UNCHANGED <<cookies_file, saving>>
       ELSE /\ cookies_file' = OpenForWrite(cookies_file, umask)
            /\ saving' = [pc |-> "opened", cookies |-> cookies, prior |-> cookies_file]
            /\ sessRet' = SessRet("save_cookies", "running", cookies, <<>>, <<>>, cookies_file)
    /\ lastSaved' = NothingSaved
    /\ UNCHANGED <<testRet, smsVars, doorVars>>

\* auth.py:26: json.dump writes the cookies, or raises on the way (a full disk)
SaveDump(outcome) ==
    /\ saving.pc = "opened"
    /\ IF outcome = "ok"
       THEN /\ cookies_file' = [cookies_file EXCEPT !.content = JsonDump(saving.cookies)]
            /\ saving' = [saving EXCEPT !.pc = "dumped"]
            /\ UNCHANGED sessRet
       ELSE /\ cookies_file' =
                 [cookies_file EXCEPT !.content = Partial(JsonDump(saving.cookies))]
            /\ saving' = NotSaving
            /\ sessRet' = SessRet("save_cookies", "raised", saving.cookies, <<>>, <<>>,
                                  saving.prior)
    /\ UNCHANGED <<lastSaved, testRet, smsVars, doorVars>>

\* auth.py:28-29: chmod, then the call returns; or chmod raises
SaveChmod(outcome) ==
    /\ saving.pc = "dumped"
    /\ saving' = NotSaving
    /\ IF outcome = "ok"
       THEN /\ cookies_file' = Chmod600(cookies_file)
            /\ sessRet' = SessRet("save_cookies", "returned", saving.cookies, <<>>, <<>>,
                                  saving.prior)
            /\ lastSaved' = [ok |-> TRUE, cookies |-> saving.cookies]
       ELSE /\ sessRet' = SessRet("save_cookies", "raised", saving.cookies, <<>>, <<>>,
                                  saving.prior)
            /\ UNCHANGED <<cookies_file, lastSaved>>
    /\ UNCHANGED <<testRet, smsVars, doorVars>>

\* load_cookies(context) on a context holding the cookies jar; another process may
\* call it while a save is under way
LoadCookies(jar) ==
    /\ \E r \in {load_cookies(cookies_file, jar)} :
           sessRet' = SessRet("load_cookies", IF r.ret THEN "True" ELSE "False",
                              <<>>, jar, r.jar, cookies_file)
    /\ UNCHANGED <<cookies_file, saving, lastSaved, testRet, smsVars, doorVars>>

\* clear_cookies()
ClearCookies ==
    /\ saving.pc = "idle"
    /\ cookies_file' = IF cookies_exist(cookies_file) THEN NoFile ELSE cookies_file
    /\ lastSaved' = NothingSaved
    /\ sessRet' = SessRet("clear_cookies", "returned", <<>>, <<>>, <<>>, cookies_file)
    /\ UNCHANGED <<saving, testRet, smsVars, doorVars>>

\* cookies.json changed from outside the program: its content replaced by text that
\* is no JSON or by a JSON object, or its mode changed (0o400, 0o000, 0o644)
Tampers == {"garbage", "object", "chmod400", "chmod000", "chmod644"}

Tamper(how) ==
    /\ saving.pc = "idle"
    /\ cookies_file.exists
    /\ cookies_file' =
          CASE how = "garbage"  -> [cookies_file EXCEPT !.content = <<"<", "html", ">">>]
            [] how = "object"   -> [cookies_file EXCEPT !.content = <<"{", "}">>]
            [] how = "chmod400" -> [cookies_file EXCEPT !.mode = 256]
            [] how = "chmod000" -> [cookies_file EXCEPT !.mode = 0]
            [] how = "chmod644" -> [cookies_file EXCEPT !.mode = 420]
    /\ lastSaved' = NothingSaved
    /\ sessRet' = SessRet("outside", "none", <<>>, <<>>, <<>>, cookies_file)
    /\ UNCHANGED <<saving, testRet, smsVars, doorVars>>

----------------------------------------------------------------------------
(* test_button_finding.py *)

\* one run of the dry-run script: how the launch goes, what the portal does, and
\* what is_visible() and is_enabled() answer ("error": one of them raises)
TestRun(launch, run, probe, visible, enabled) ==
    [launch |-> launch, run |-> run, probe |-> probe, visible |-> visible,
     enabled |-> enabled]

TestRuns ==
    {TestRun("error", NominalRun, "ok", TRUE, TRUE)}
    \cup {TestRun("ok", r, "ok", TRUE, TRUE) :
            r \in { WebRun("error", "ok", DefaultUrl, "ok", 1, "ok", "ok"),
                    WebRun("ok", "timeout", DefaultUrl, "ok", 1, "ok", "ok"),
                    WebRun("ok", "ok", <<"/","a","u","t","h","/","S","i","g","n","I","n">>,
                           "ok", 1, "ok", "ok"),
                    WebRun("ok", "ok", DefaultUrl, "timeout", 1, "ok", "ok"),
                    WebRun("ok", "ok", DefaultUrl, "ok", 0, "ok", "ok"),
                    WebRun("ok", "ok", DefaultUrl, "ok", 1, "ok", "error") }}
    \cup {TestRun("ok", NominalRun, "error", TRUE, TRUE)}
    \cup {TestRun("ok", WebRun("ok", "ok", DefaultUrl, "ok", n, "ok", "ok"), "ok", v, e) :
            n \in {1, 2}, v \in BOOLEAN, e \in BOOLEAN}

TestResult(raised, ret, clicks, loaded) ==
    [raised |-> raised, ret |-> ret, clicks |-> clicks, loaded |-> loaded]

\* test_find_button(): whether it raised, the value returned, the clicks on the door
\* button and whether the saved cookies were loaded. Nothing in it calls click();
\* is_visible() and is_enabled() decide what is logged (lines 70-76) and nothing
\* else; run.wait stands for page.wait_for_timeout(5000).
test_find_button(file, t) ==
    LET loaded == cookies_exist(file) /\ load_cookies(file, <<>>).ret
        run    == t.run
    IN  IF t.launch # "ok" THEN TestResult(TRUE, FALSE, 0, FALSE)
        ELSE IF run.newPage # "ok" THEN TestResult(FALSE, FALSE, 0, loaded)
        ELSE IF run.goto # "ok" THEN TestResult(FALSE, FALSE, 0, loaded)
        ELSE IF IsLoginUrl(run.url) THEN TestResult(FALSE, FALSE, 0, loaded)
        ELSE IF run.idle # "ok" THEN TestResult(FALSE, FALSE, 0, loaded)
        ELSE IF ButtonMissing(run.count) THEN TestResult(FALSE, FALSE, 0, loaded)
        ELSE IF t.probe # "ok" THEN TestResult(FALSE, FALSE, 0, loaded)
        ELSE IF run.wait # "ok" THEN TestResult(FALSE, FALSE, 0, loaded)
        ELSE TestResult(FALSE, TRUE, 0, loaded)

\* test_button_finding.py:102-110
Verdict(success) ==
    IF success THEN "TEST PASSED: Button can be found and clicked"
    ELSE "TEST FAILED: Check logs above for details"

NoTestRet ==
    [ran |-> FALSE, t |-> TestRun("ok", NominalRun, "ok", TRUE, TRUE),
     result |-> TestResult(FALSE, FALSE, 0, FALSE), printed |-> "none"]

\* python test_button_finding.py
TestFindButton(t) ==
    /\ \E r \in {test_find_button(cookies_file, t)} :
           testRet' = [ran |-> TRUE, t |-> t, result |-> r,
                       printed |-> IF r.raised THEN "none" ELSE Verdict(r.ret)]
    /\ UNCHANGED <<cookies_file, saving, lastSaved, sessRet, smsVars, doorVars>>

----------------------------------------------------------------------------
(* main.py: the webhook *)

\* validate_twilio_request: the validator is built but validator.validate is
\* commented out; the header only has to be non-empty (main.py:81-89)
validate_twilio_request(signature) == signature # NoSignature

\* create_sms_response: the TwiML document around the message
create_sms_response(message) == <<"<Response><Message>", message, "</Message></Response>">>

\* a command parser that forgets to trim
ParseCommandUntrimmed(Body) == Lower(Body)

\* main.py:156
ParseCommand(Body) == Lower(Strip(Body))

\* main.py:164-173
DoorMessage(result) ==
    IF result.success THEN "Door opened at <timestamp>"
    ELSE IF result.message = "session_expired" THEN "Session expired. Re-authenticate on Pi."
    ELSE "Failed to open door. Try again or check session."

\* main.py:185-190
StatusMessage(status) ==
    IF status.session_valid THEN "Server online. Session active."
    ELSE IF status.cookies_exist THEN "Server online. Session may be expired."
    ELSE "Server online. No session found."

\* receive_sms, one whole call: the answer, the steps in the order they ran, the
\* rate-limit dictionary and the global opener it leaves, and what it did to the
\* browser. An exception leaving open_door or check_status is answered with 500.
receive_sms(data, global, made, file, now, From, Body, signature, startRun, run) ==
    LET idle == [opener |-> global, opened |-> 0, checked |-> 0, clicks |-> 0,
                 created |-> 0, closed |-> 0, openers |-> 0, browsers |-> 0, contexts |-> 0]
        Out(status, content, steps, d, ok, command, browser) ==
            [status |-> status, content |-> content, steps |-> steps, data |-> d,
             accepted |-> ok, command |-> command, browser |-> browser]
    IN
    IF ~validate_twilio_request(signature)
    THEN Out(403, <<>>, <<"signature">>, data, FALSE, "none", idle)
    ELSE IF ~is_phone_allowed(From)
    THEN Out(200, <<>>, <<"signature", "allowlist">>, data, FALSE, "none", idle)
    ELSE
    LET rl == check_rate_limit(data, From, now) IN
    IF ~rl.ok
    THEN Out(200, create_sms_response("Rate limit exceeded. Max 10 requests per hour."),
             <<"signature", "allowlist", "rate_limit">>, rl.data, FALSE, "none", idle)
    ELSE
    LET command == ParseCommand(Body)
        steps   == <<"signature", "allowlist", "rate_limit", "dispatch">>
    IN
    IF command = <<"d","o","o","r">>
    THEN LET r == open_door(global, made, file, startRun, run)
             b == [opener |-> r.got.opener, opened |-> 1, checked |-> 0,
                   clicks |-> r.result.clicks, created |-> r.result.created,
                   closed |-> r.result.closed, openers |-> r.got.openers,
                   browsers |-> r.got.browsers, contexts |-> r.got.contexts]
         IN  IF r.raised
             THEN Out(500, <<>>, steps, rl.data, TRUE, "door", b)
             ELSE Out(200, create_sms_response(DoorMessage(r.result)), steps,
                      rl.data, TRUE, "door", b)
    ELSE IF command = <<"s","t","a","t","u","s">>
    THEN LET r == check_status(global, made, file, startRun, run)
             b == [opener |-> r.got.opener, opened |-> 0, checked |-> 1,
                   clicks |-> 0, created |-> r.created,
                   closed |-> r.closed, openers |-> r.got.openers,
                   browsers |-> r.got.browsers, contexts |-> r.got.contexts]
         IN  IF r.raised
             THEN Out(500, <<>>, steps, rl.data, TRUE, "status", b)
             ELSE Out(200, create_sms_response(StatusMessage(r.status)), steps,
                      rl.data, TRUE, "status", b)
    ELSE Out(200, create_sms_response("Unknown command. Send 'door' to open."), steps,
             rl.data, TRUE, "unknown", idle)

NoRequest ==
    [From |-> "none", Body |-> <<>>, signature |-> NoSignature, status |-> 0,
     content |-> <<>>, steps |-> <<>>, accepted |-> FALSE, command |-> "none",
     opened |-> 0, checked |-> 0, clicks |-> 0, created |-> 0, launched |-> 0,
     at |-> 0, before |-> <<>>]

\* POST /sms
ReceiveSms(From, Body, signature, startRun, run) ==
    /\ running
    /\ \E r \in {receive_sms(rate_limit_data, door_opener, launches.openers, cookies_file,
                            clock, From, Body, signature, startRun, run)} :
           /\ pages + r.browser.created - r.browser.closed <= MaxPages
           /\ rate_limit_data' = r.data
           /\ accepted' = IF r.accepted
                          THEN [accepted EXCEPT ![From] = Append(@, clock)]
                          ELSE accepted
           /\ dispatched' = IF r.command # "none"
                            THEN [dispatched EXCEPT ![From] = Append(@, clock)]
                            ELSE dispatched
           /\ last' = [From |-> From, Body |-> Body, signature |-> signature,
                       status |-> r.status, content |-> r.content, steps |-> r.steps,
                       accepted |-> r.accepted, command |-> r.command,
                       opened |-> r.browser.opened, checked |-> r.browser.checked,
                       clicks |-> r.browser.clicks, created |-> r.browser.created,
                       launched |-> r.browser.openers + r.browser.browsers
                                    + r.browser.contexts,
                       at |-> clock,
                       before |-> rate_limit_data]
           /\ door_opener' = r.browser.opener
           /\ launches' = Launched(launches, r.browser)
           /\ pages' = pages + r.browser.created - r.browser.closed
    /\ UNCHANGED <<clock, doorRet, running, fileVars>>

\* time passes
TickSeconds == rate_limit_window_seconds \div 2

Tick ==
    /\ clock < MaxTicks * TickSeconds
    /\ clock' = clock + TickSeconds
    /\ UNCHANGED <<rate_limit_data, accepted, dispatched, last, doorVars, fileVars>>

----------------------------------------------------------------------------
(* Specifications *)

vars == <<smsVars, doorVars, fileVars>>

NoHistory == [p \in Phones |-> <<>>]

\* the state after the modules are imported; cookies.json is what an earlier
\* python auth.py run left, if any
InitWith(files) ==
    /\ clock = 0
    /\ rate_limit_data = <<>>
    /\ accepted = NoHistory
    /\ dispatched = NoHistory
    /\ last = NoRequest
    /\ door_opener = NoOpener
    /\ launches = NoLaunches
    /\ pages = 0
    /\ doorRet = NoDoorRet
    /\ running = TRUE
    /\ cookies_file \in files
    /\ saving = NotSaving
    /\ lastSaved = NothingSaved
    /\ sessRet = NoSessRet
    /\ testRet = NoTestRet

RECURSIVE SumLen(_, _)
SumLen(f, S) ==
    IF S = {} THEN 0
    ELSE LET p == CHOOSE x \in S : TRUE IN Len(f[p]) + SumLen(f, S \ {p})

TotalAccepted == SumLen(accepted, Phones)

\* the rate limiter over time: signed requests from every allowed number
RateBodies == { <<"d","o","o","r">>, <<"o","p","e","n">> }

NextRate ==
    \/ Tick
    \/ /\ TotalAccepted < MaxAccepted
       /\ \E From \in allowed_phone_numbers, Body \in RateBodies :
              ReceiveSms(From, Body, TwilioSignature, "ok", NominalRun)

InitRate == InitWith({SavedFile(<<[name |-> "sid", value |-> "s1"]>>)})

SpecRate == InitRate /\ [][NextRate]_vars

\* the webhook within one hour: every kind of request, from one allowed number and
\* from a stranger, the browser starting or not and the portal answering in the
\* ways the replies tell apart
SmsPhones == {"+15550001", "+15559999"}
SmsStartRuns == {"ok", "launch_error"}
SmsRuns ==
    { NominalRun,
      WebRun("ok", "ok", <<"/","L","o","g","i","n","?","n","=","1">>, "ok", 1, "ok", "ok"),
      WebRun("ok", "ok", DefaultUrl, "ok", 0, "ok", "ok") }

NextSms ==
    \E From \in SmsPhones, Body \in Bodies, signature \in Signatures,
       startRun \in SmsStartRuns, run \in SmsRuns :
        ReceiveSms(From, Body, signature, startRun, run)

InitSms == InitWith({NoFile, SavedFile(<<[name |-> "sid", value |-> "s1"]>>)})

SpecSms == InitSms /\ [][NextSms]_vars

\* the door module: every way the browser start-up and the portal can go
NextDoor ==
    \/ \E startRun \in StartRuns, run \in WebRuns : OpenDoorCall(startRun, run)
    \/ \E startRun \in StartRuns, run \in WebRuns : CheckStatusCall(startRun, run)
    \/ \E startRun \in StartRuns : StartAgain(startRun)
    \/ Shutdown

InitDoor == InitWith({NoFile} \cup {SavedFile(c) : c \in CookieLists})

SpecDoor == InitDoor /\ [][NextDoor]_vars

----------------------------------------------------------------------------
(* Properties of the rate limiter, under SpecRate *)

\* the entries of a history that lie in the window (t - 3600 s, t]
InSlidingHour(log, t) ==
    {j \in DOMAIN log : log[j] > t - rate_limit_window_seconds /\ log[j] <= t}

\* the entries of a history later than t - 3600 s
Counted(log, t) == {j \in DOMAIN log : log[j] > t - rate_limit_window_seconds}

\* whether the last call got as far as check_rate_limit
ReachedLimiter == Len(last.steps) >= 3

\* C1. Rate limit bound: for every number and every call of it that
\* check_rate_limit accepted at a time t, at most rate_limit_max_requests accepted
\* calls of that number (this one included) lie in (t - 3600 s, t]; the commands
\* dispatched for a number are its accepted calls, so the same bound holds for them.
C1_RateLimitBound ==
    \A p \in Phones :
        /\ \A i \in DOMAIN accepted[p] :
              Cardinality(InSlidingHour(accepted[p], accepted[p][i]))
                  <= rate_limit_max_requests
        /\ \A i \in DOMAIN dispatched[p] :
              Cardinality(InSlidingHour(dispatched[p], dispatched[p][i]))
                  <= rate_limit_max_requests

\* a number that used its ten calls and, the window having moved on, got an
\* eleventh accepted
C1_Witness ==
    \E p \in Phones :
        /\ Len(accepted[p]) > rate_limit_max_requests
        /\ Len(dispatched[p]) > rate_limit_max_requests
        /\ Cardinality(InSlidingHour(accepted[p], 0)) = rate_limit_max_requests

\* the accepted calls of the last sender before the last call
PriorAccepted ==
    IF last.accepted
    THEN SubSeq(accepted[last.From], 1, Len(accepted[last.From]) - 1)
    ELSE accepted[last.From]

\* C10. Rate-limit recovery: a call check_rate_limit rejects is not recorded (the
\* sender's list is its old list without the entries that left the window); a call
\* at time t is accepted exactly when fewer than 10 accepted calls of the sender
\* are later than t - 3600 s, hence at the latest 3600 s after the oldest accepted
\* call still counted; and the lists of the other numbers are left as they were.
C10_RateLimitRecovery ==
    ReachedLimiter =>
        LET p    == last.From
            t    == last.at
            old  == IF p \in DOMAIN last.before THEN last.before[p] ELSE <<>>
            kept == SelectSeq(old, LAMBDA ts : ts > t - rate_limit_window_seconds)
            n    == Len(PriorAccepted)
        IN  /\ ~last.accepted => rate_limit_data[p] = kept
            /\ last.accepted => rate_limit_data[p] = Append(kept, t)
            /\ last.accepted <=>
                   Cardinality(Counted(PriorAccepted, t)) < rate_limit_max_requests
            /\ (/\ n >= rate_limit_max_requests
                /\ t >= PriorAccepted[n - rate_limit_max_requests + 1]
                          + rate_limit_window_seconds)
                   => last.accepted
            /\ \A q \in Phones \ {p} :
                   /\ q \in DOMAIN rate_limit_data <=> q \in DOMAIN last.before
                   /\ q \in DOMAIN last.before => rate_limit_data[q] = last.before[q]

\* a sender whose list was full is accepted again once its oldest calls are an hour
\* old
C10_Witness ==
    /\ ReachedLimiter
    /\ last.accepted
    /\ last.From \in DOMAIN last.before
    /\ Len(last.before[last.From]) = rate_limit_max_requests
    /\ last.at >= rate_limit_window_seconds

----------------------------------------------------------------------------
(* Properties of the webhook, under SpecSms *)

Handled == last.From # "none"

EmptyBody == <<>>

\* the last call did nothing to the browser: no opener made, nothing launched, no
\* page, no click
NoBrowserAction ==
    /\ last.opened = 0
    /\ last.checked = 0
    /\ last.launched = 0
    /\ last.created = 0
    /\ last.clicks = 0

\* C2, as claimed: a call from a number that is not allowed never invokes open_door
\* or check_status, leaves rate_limit_data as it was, and is answered with 200 and
\* an empty body.
C2_Claimed ==
    (Handled /\ last.From \notin allowed_phone_numbers) =>
        /\ NoBrowserAction
        /\ rate_limit_data = last.before
        /\ last.status = 200
        /\ last.content = EmptyBody

\* C2, amended: a call from a number that is not allowed never invokes open_door or
\* check_status and leaves rate_limit_data as it was; it is answered with 200 and
\* an empty body when it carries an X-Twilio-Signature header, and with 403 when
\* it carries none (the signature test comes first).
C2_UnauthorizedIgnored ==
    (Handled /\ last.From \notin allowed_phone_numbers) =>
        /\ NoBrowserAction
        /\ rate_limit_data = last.before
        /\ last.From \notin DOMAIN rate_limit_data
        /\ last.command = "none"
        /\ last.content = EmptyBody
        /\ last.status = IF last.signature = NoSignature THEN 403 ELSE 200

\* a stranger texts "door" while the allowed number has calls on record
C2_Witness ==
    /\ Handled
    /\ last.From \notin allowed_phone_numbers
    /\ last.signature = TwilioSignature
    /\ last.Body = <<"d","o","o","r">>
    /\ last.status = 200
    /\ rate_limit_data # <<>>

\* C3, as claimed: receive_sms goes on to the allowlist, the rate limiter and the
\* dispatch only for a request whose X-Twilio-Signature is the valid signature;
\* every other request is answered with 403, touches no rate-limit state and does
\* nothing to the browser.
C3_Claimed ==
    (Handled /\ last.signature # TwilioSignature) =>
        /\ last.status = 403
        /\ last.steps = <<"signature">>
        /\ rate_limit_data = last.before
        /\ NoBrowserAction

GateOrder == <<"signature", "allowlist", "rate_limit", "dispatch">>

Trimmed(Body) == Lower(Strip(Body))

\* C4. Gate order and three-way dispatch: the steps of a call are the allowlist
\* check, the rate limiter and the dispatch, in that order and each only after the
\* one before; the dispatch runs exactly when the number is allowed and the rate
\* limiter accepted; 'door' (trimmed, lowercased) calls open_door once and never
\* check_status, 'status' calls check_status once and never clicks, any other body
\* calls neither and gets the unknown-command reply; a call the rate limiter
\* rejects gets the rate-limit reply and calls neither.
C4_GateOrderAndDispatch ==
    Handled =>
        LET old      == IF last.From \in DOMAIN last.before
                        THEN last.before[last.From] ELSE <<>>
            room     == Cardinality(Counted(old, last.at)) < rate_limit_max_requests
            allowed  == last.From \in allowed_phone_numbers
            dispatch == Len(last.steps) = 4
        IN  /\ last.steps = SubSeq(GateOrder, 1, Len(last.steps))
            /\ Len(last.steps) >= 3 => allowed
            /\ dispatch <=> (Len(last.steps) >= 2 /\ allowed /\ room)
            /\ dispatch =>
                  /\ Trimmed(last.Body) = <<"d","o","o","r">> =>
                        (last.command = "door" /\ last.opened = 1 /\ last.checked = 0)
                  /\ Trimmed(last.Body) = <<"s","t","a","t","u","s">> =>
                        (last.command = "status" /\ last.checked = 1
                         /\ last.opened = 0 /\ last.clicks = 0)
                  /\ Trimmed(last.Body) \notin {<<"d","o","o","r">>, <<"s","t","a","t","u","s">>} =>
                        /\ last.command = "unknown"
                        /\ NoBrowserAction
                        /\ last.content =
                             create_sms_response("Unknown command. Send 'door' to open.")
            /\ ~dispatch => NoBrowserAction
            /\ (Len(last.steps) = 3) =>
                  /\ ~room
                  /\ last.content =
                       create_sms_response("Rate limit exceeded. Max 10 requests per hour.")

\* "  DoOr" with a newline, from the allowed number: dispatched as door, open_door
\* called once, after ten calls were already on record
C4_Witness ==
    /\ Handled
    /\ last.Body = <<" ","D","o","O","r","\n">>
    /\ last.command = "door"
    /\ last.opened = 1
    /\ Len(rate_limit_data[last.From]) = rate_limit_max_requests

----------------------------------------------------------------------------
(* Properties of the door module, under SpecDoor *)

\* C7. Single global browser: at most one DoorOpener is created and at most one
\* browser and one context are launched; every open_door and check_status call
\* uses that one instance; DoorOpener.start on a started opener launches nothing
\* and leaves the opener as it is.
C7_SingleGlobalBrowser ==
    /\ launches.openers <= 1
    /\ launches.browsers <= 1
    /\ launches.contexts <= 1
    /\ doorRet.op \in {"open_door", "check_status"} =>
          /\ doorRet.used = 1
          /\ door_opener.exists /\ door_opener.id = 1
          /\ doorRet.before.exists => doorRet.before.id = 1
    /\ (doorRet.op = "start" /\ doorRet.before.browser) =>
          /\ doorRet.browsers = 0
          /\ ~doorRet.raised
          /\ door_opener = doorRet.before

\* start is called again on the opener whose browser and context are up
C7_Witness ==
    /\ doorRet.op = "start"
    /\ doorRet.before.browser
    /\ doorRet.before.context
    /\ doorRet.startRun = "ok"
    /\ launches = [openers |-> 1, browsers |-> 1, contexts |-> 1]

DoorCalled == doorRet.op = "open_door" /\ ~doorRet.raised

Clicked == doorRet.result.clicks = 1

Succeeded == doorRet.result.success /\ doorRet.result.message = "success"

HasLoginWord(url) ==
    \/ Contains(Lower(url), <<"l","o","g","i","n">>)
    \/ Contains(Lower(url), <<"s","i","g","n","i","n">>)

\* what C9 says of every open_door call, but for the relation between the click
\* and the value returned
DoorClickConditions ==
    /\ doorRet.result.clicks <= 1
    /\ Clicked =>
          /\ doorRet.run.goto = "ok"
          /\ doorRet.result.url = doorRet.run.url
          /\ ~HasLoginWord(doorRet.result.url)
          /\ doorRet.result.counted >= 1
    /\ (door_opener.browser /\ door_opener.context /\ doorRet.run.newPage = "ok"
        /\ doorRet.run.goto = "ok" /\ HasLoginWord(doorRet.run.url)) =>
          (~doorRet.result.success /\ doorRet.result.message = "session_expired"
           /\ ~Clicked)
    /\ doorRet.result.counted = 0 =>
          (~doorRet.result.success /\ doorRet.result.message = "button_not_found"
           /\ ~Clicked)
    /\ (~door_opener.browser \/ ~door_opener.context) =>
          (~doorRet.result.success
           /\ doorRet.result.message = "Browser not initialized"
           /\ doorRet.result.created = 0)

\* C9, as claimed: one open_door call clicks at most once and only after a
\* navigation that ended off the login page and a count of at least one; it returns
\* (True, 'success') if and only if the button was clicked in that call; it returns
\* session_expired, button_not_found and 'Browser not initialized' as stated.
C9_Claimed ==
    DoorCalled => (DoorClickConditions /\ (Succeeded <=> Clicked))

\* C9, amended: as claimed, except that (True, 'success') is returned if and only
\* if the button was clicked and neither the click nor the two-second wait after it
\* raised; a click followed by an exception is answered (False, 'timeout') or
\* (False, 'error: ...').
C9_DoorClick ==
    DoorCalled =>
        /\ DoorClickConditions
        /\ doorRet.result.success => Succeeded
        /\ Succeeded <=>
              (Clicked /\ doorRet.run.click = "ok" /\ doorRet.run.wait = "ok")
        /\ (Clicked /\ ~Succeeded) =>
              (~doorRet.result.success /\ doorRet.result.message \in {"timeout", "error"})

\* the button was clicked and the wait after the click raised
C9_Witness ==
    /\ DoorCalled
    /\ Clicked
    /\ doorRet.run.click = "ok"
    /\ doorRet.run.wait = "error"
    /\ ~doorRet.result.success

----------------------------------------------------------------------------
(* The session store and the dry run: python auth.py saving the session, the     *)
(* server or the dry-run script loading it                                       *)

\* the cookies a context holds before load_cookies: none (a fresh context), or a
\* stale session
Jars == { <<>>, <<[name |-> "sid", value |-> "s0"]>> }

NextSession ==
    \/ \E cookies \in CookieLists, umask \in Umasks : SaveOpen(cookies, umask)
    \/ \E outcome \in {"ok", "error"} : SaveDump(outcome)
    \/ \E outcome \in {"ok", "error"} : SaveChmod(outcome)
    \/ \E jar \in Jars : LoadCookies(jar)
    \/ ClearCookies
    \/ \E how \in Tampers : Tamper(how)
    \/ \E t \in TestRuns : TestFindButton(t)

InitSession == InitWith({NoFile})

SpecSession == InitSession /\ [][NextSession]_vars

----------------------------------------------------------------------------
(* Properties of the session store and of the dry run, under SpecSession *)

SaveReturned == sessRet.op = "save_cookies" /\ sessRet.ret = "returned"

\* C5. Cookie file permissions: whenever save_cookies returns normally, cookies.json
\* exists, holds the JSON text of the context's cookies (it parses back to them) and
\* has mode 0600, whether or not the file existed before and whatever its mode was.
C5_CookieFileMode ==
    SaveReturned =>
        /\ cookies_file.exists
        /\ JsonLoad(cookies_file.content) = [kind |-> "cookies", value |-> sessRet.cookies]
        /\ cookies_file.mode = 384

\* save_cookies returned after overwriting a file that was there with mode 0644
C5_Witness ==
    /\ SaveReturned
    /\ sessRet.file.exists
    /\ sessRet.file.mode = 420
    /\ Len(sessRet.cookies) = 2

Loaded == sessRet.op = "load_cookies"

\* C6. Session round trip: when the latest save_cookies call returned normally and
\* neither clear_cookies nor a change from outside followed, load_cookies on a fresh
\* context returns True and leaves it holding exactly the cookies saved; when the
\* file does not exist or does not parse, load_cookies returns False and the
\* context holds what it held.
C6_SessionRoundTrip ==
    Loaded =>
        /\ (lastSaved.ok /\ sessRet.before = <<>>) =>
              (sessRet.ret = "True" /\ sessRet.jar = lastSaved.cookies)
        /\ (~cookies_file.exists \/ JsonLoad(cookies_file.content).kind = "invalid") =>
              (sessRet.ret = "False" /\ sessRet.jar = sessRet.before)

\* two cookies saved, then loaded into a fresh context
C6_Witness ==
    /\ Loaded
    /\ lastSaved.ok
    /\ Len(lastSaved.cookies) = 2
    /\ sessRet.before = <<>>
    /\ sessRet.ret = "True"
    /\ Len(sessRet.jar) = 2

\* C8, as claimed: test_find_button never clicks the door button, and it returns
\* True (printed as TEST PASSED) only when the page was not redirected to a login
\* URL, at least one element matched, and the first match is visible and enabled.
C8_Claimed ==
    (testRet.ran /\ ~testRet.result.raised) =>
        /\ testRet.result.clicks = 0
        /\ testRet.printed = "TEST PASSED: Button can be found and clicked"
              <=> testRet.result.ret
        /\ testRet.result.ret =>
              /\ ~HasLoginWord(testRet.t.run.url)
              /\ testRet.t.run.count >= 1
              /\ testRet.t.visible
              /\ testRet.t.enabled

----------------------------------------------------------------------------
(* Pages and start-up of the global opener, under SpecDoor *)

\* C11, as claimed: once an open_door or check_status call on the global opener
\* has returned, no page it created is still open: every page DoorOpener.open_door
\* and SessionManager.is_session_valid create is closed on every path, navigation
\* timeouts and other exceptions included.
C11_Claimed ==
    (running /\ doorRet.op \in {"open_door", "check_status"}) => pages = 0

\* C12, as claimed: whenever get_door_opener returns an opener (and stop has not
\* been called), that opener has a running browser and a context; after a start-up
\* that raised, or that left a browser without a context, a later open_door or
\* check_status call starts up again instead of answering 'Browser not initialized'.
C12_Claimed ==
    (running /\ doorRet.op \in {"open_door", "check_status"} /\ ~doorRet.raised) =>
        /\ door_opener.browser
        /\ door_opener.context
        /\ doorRet.result.message # "Browser not initialized"

----------------------------------------------------------------------------
(* The cookie file while save_cookies runs, under SpecSession *)

\* the values of the session cookies
SessionValues ==
    UNION { { cookies[i].value : i \in 1..Len(cookies) } : cookies \in CookieLists }

\* the text holds session cookie data: one of its tokens is a cookie's value
HoldsCookieData(text) == \E i \in 1..Len(text) : text[i] \in SessionValues

\* save_cookies has the file open, or has written to it and returned or raised
SaveWrote ==
    \/ saving.pc \in {"opened", "dumped"}
    \/ /\ sessRet.op = "save_cookies"
       /\ sessRet.ret \in {"returned", "raised"}
       /\ (sessRet.file.exists => OwnerCanWrite(sessRet.file.mode))

\* C13, as claimed: in every state save_cookies goes through or leaves behind, the
\* states between the write and the chmod and those left when json.dump or chmod
\* raises included, a cookies.json that holds session cookie data has mode 0600,
\* both when the call creates the file and when it overwrites an existing one.
C13_Claimed ==
    (SaveWrote /\ cookies_file.exists /\ HoldsCookieData(cookies_file.content)) =>
        cookies_file.mode = 384

====
